---------------------------- MODULE Spec2Model ----------------------------
(***************************************************************************)
(* Model of ct_classifier/train.py: the checkpoint store under             *)
(* model_states/, load_model_optim_scaler(), save_model(), the per-batch   *)
(* pipeline of train() and validate(), and the epoch loop of main().       *)
(*                                                                         *)
(* Tensors are abstracted to small integers.  NONFINITE stands for any     *)
(* value holding an inf or a NaN.  The GradScaler's scale factor is a      *)
(* float32 power of two and is represented by its exponent; the exponent   *)
(* ZeroScale stands for the value 0.0 reached by underflow.                *)
(***************************************************************************)
EXTENDS Integers, Sequences, FiniteSets, TLC

\* ------------------------------------------------------------------ bounds

\* largest num_epochs a configuration may ask for
MaxEpochs == 2
\* largest len(dl_train)
MaxTrainBatches == 2
\* largest len(dl_val)
MaxValBatches == 2
\* how many times the process may be killed or started again
MaxRestarts == 1
\* parameters are integers modulo ParamMod
ParamMod == 5
\* GradScaler's growth_interval (2000 in torch), scaled down
GrowthInterval == 2

\* ------------------------------------------------- values of the tensors

\* a tensor with an inf or a NaN in it
NONFINITE == -1

\* float32: 2^-149 is the smallest positive value, 2^127 the largest power of two
MinScaleExp == -149
MaxScaleExp == 127
\* GradScaler's init_scale is 2.**16
InitScaleExp == 16
\* the exponent that stands for a scale factor of 0.0
ZeroScale == MinScaleExp - 1

Add(a, b) == IF a = NONFINITE \/ b = NONFINITE THEN NONFINITE ELSE a + b

\* optimizer.step() of SGD: p <- p - lr * grad, on the abstract parameters
SgdStep(p, g, lr) ==
    IF p = NONFINITE \/ g = NONFINITE THEN NONFINITE ELSE (p + lr * g) % ParamMod

\* criterion(model(data), labels).item() for the abstract parameters p
LossOf(p) == IF p = NONFINITE THEN NONFINITE ELSE ParamMod - p

\* torch.mean((argmax(prediction) == labels).float()).item()
OaOf(p) == IF p = NONFINITE THEN 0 ELSE p % 2

\* x / n of Python floats, kept exact as a fraction
Mean(x, n) == [num |-> x, den |-> n]

\* --------------------------------------------------------- the file names

\* a file model_states/<name>.pt is named by the digits of <name>
ParseDigits(s, acc) ==
    LET F[i \in 0..Len(s)] == IF i = 0 THEN acc ELSE 10 * F[i - 1] + s[i]
    IN  F[Len(s)]

\* int(m.replace('model_states/','').replace('.pt',''))
ParseInt(s) == ParseDigits(s, 0)

\* f'{epoch}' for epoch >= 0
RECURSIVE Str(_)
Str(n) == IF n < 10 THEN <<n>> ELSE Str(n \div 10) \o <<n % 10>>

SetMax(S) == CHOOSE x \in S : \A y \in S : y <= x

\* a plausible slip: the number of checkpoints taken for the latest epoch
LatestEpoch_count(names) == Cardinality(names)

\* max(model_epochs) over the names glob returned
LatestEpoch(names) == SetMax({ParseInt(n) : n \in names})


\* ------------------------------------------------------- the GradScaler

\* torch.cuda.amp.GradScaler(enabled=...): a scaler that is asked for without
\* CUDA disables itself; a disabled scaler reports a scale of 1.0 = 2^0
NewScaler(enabled) ==
    [enabled |-> enabled,
     scale |-> IF enabled THEN InitScaleExp ELSE 0,
     growth_tracker |-> 0,
     found_inf |-> FALSE]

\* scaler.state_dict(): empty for a disabled scaler
ScalerStateDict(sc) ==
    IF sc.enabled
    THEN [empty |-> FALSE, scale |-> sc.scale, growth_tracker |-> sc.growth_tracker]
    ELSE [empty |-> TRUE, scale |-> 0, growth_tracker |-> 0]

\* scaler.load_state_dict(sd) on an enabled scaler with a non-empty sd
ScalerLoaded(sc, sd) ==
    [sc EXCEPT !.scale = sd.scale, !.growth_tracker = sd.growth_tracker]

\* the gradients after unscale_: grad * (1 / scale); 1/0.0 is inf and
\* anything times inf is inf or NaN
Unscale(g, scale) == IF scale = ZeroScale THEN NONFINITE ELSE g

\* scale * backoff_factor (0.5) in float32: 2^-149 * 0.5 rounds to 0.0
Backoff(scale) == IF scale = ZeroScale THEN ZeroScale ELSE scale - 1

\* scale * growth_factor (2.0), kept only when the product is finite
Grow(scale) ==
    IF scale = ZeroScale \/ scale + 1 > MaxScaleExp THEN scale ELSE scale + 1

\* a plausible slip: the scaler takes the optimizer step whatever it found
ScalerStep_always(sc, g, p, lr) ==
    [scaler |-> [sc EXCEPT !.found_inf = (Unscale(g, sc.scale) = NONFINITE)],
     grads |-> g,
     model |-> SgdStep(p, g, lr)]

\* scaler.step(optimizer): a disabled scaler calls optimizer.step(); an
\* enabled one unscales the gradients, records whether any is non-finite and
\* calls optimizer.step() only if none is
ScalerStep(sc, g, p, lr) ==
    IF ~sc.enabled
    THEN [scaler |-> sc, grads |-> g, model |-> SgdStep(p, g, lr)]
    ELSE LET u == Unscale(g, sc.scale)
         IN  [scaler |-> [sc EXCEPT !.found_inf = (u = NONFINITE)],
              grads |-> u,
              model |-> IF u = NONFINITE THEN p ELSE SgdStep(p, u, lr)]

\* scaler.update(): nothing for a disabled scaler; otherwise back off after a
\* non-finite step, and grow after growth_interval steps without one
ScalerUpdate(sc) ==
    IF ~sc.enabled THEN sc
    ELSE IF sc.found_inf
    THEN [sc EXCEPT !.scale = Backoff(sc.scale), !.growth_tracker = 0,
                    !.found_inf = FALSE]
    ELSE IF sc.growth_tracker + 1 = GrowthInterval
    THEN [sc EXCEPT !.scale = Grow(sc.scale), !.growth_tracker = 0]
    ELSE [sc EXCEPT !.growth_tracker = sc.growth_tracker + 1]

\* ------------------------------------------------------ the checkpoints

\* what torch.save(stats, ...) writes: the four statistics and three states
Bundle(m, o, sd, st) ==
    [kind |-> "ok", model |-> m, optim |-> o, scaler |-> sd, stats |-> st]

NoStats ==
    [loss_train |-> Mean(0, 1), oa_train |-> Mean(0, 1),
     loss_val |-> Mean(0, 1), oa_val |-> Mean(0, 1)]

\* a file torch.load cannot read: empty or cut short
PartialFile ==
    [kind |-> "corrupt", model |-> 0, optim |-> [lr |-> 0],
     scaler |-> [empty |-> TRUE, scale |-> 0, growth_tracker |-> 0],
     stats |-> NoStats]

\* a readable file whose state['model'] does not fit CustomResNet18(num_classes)
MismatchFile == [PartialFile EXCEPT !.kind = "mismatch"]

LoadErrors == {"FileNotFoundError", "UnpicklingError", "RuntimeError"}

LoadFailed(err) ==
    [error |-> err, model |-> 0, optim |-> [lr |-> 0],
     scaler |-> NewScaler(FALSE), start_epoch |-> 0]

\* cfg.get('use_amp', False)
UseAmp(c) == c.use_amp = "true"

\* a plausible slip: a checkpoint that cannot be loaded is ignored and
\* training starts anew
LoadResult_fallback(fs, c, e) ==
    LET sc0 == NewScaler(UseAmp(c) /\ e.cuda)
        new == [error |-> "none", model |-> 0, optim |-> [lr |-> c.learning_rate],
                scaler |-> sc0, start_epoch |-> 0]
    IN  IF DOMAIN fs = {} THEN new
        ELSE LET start == LatestEpoch(DOMAIN fs)
                 path == Str(start)
             IN  IF path \notin DOMAIN fs \/ fs[path].kind # "ok"
                    \/ (sc0.enabled /\ fs[path].scaler.empty)
                 THEN new
                 ELSE [error |-> "none", model |-> fs[path].model,
                       optim |-> fs[path].optim,
                       scaler |-> IF sc0.enabled
                                  THEN ScalerLoaded(sc0, fs[path].scaler) ELSE sc0,
                       start_epoch |-> start]

\* load_model_optim_scaler(cfg) on the store fs: what it returns, or the
\* exception it raises
LoadResult(fs, c, e) ==
    LET sc0 == NewScaler(UseAmp(c) /\ e.cuda)
    IN  IF DOMAIN fs = {}
        THEN [error |-> "none", model |-> 0, optim |-> [lr |-> c.learning_rate],
              scaler |-> sc0, start_epoch |-> 0]
        ELSE LET start == LatestEpoch(DOMAIN fs)
                 path == Str(start)
             IN  IF path \notin DOMAIN fs THEN LoadFailed("FileNotFoundError")
                 ELSE IF fs[path].kind = "corrupt" THEN LoadFailed("UnpicklingError")
                 ELSE IF fs[path].kind = "mismatch" THEN LoadFailed("RuntimeError")
                 ELSE IF sc0.enabled /\ fs[path].scaler.empty
                 THEN LoadFailed("RuntimeError")
                 ELSE [error |-> "none", model |-> fs[path].model,
                       optim |-> fs[path].optim,
                       scaler |-> IF sc0.enabled
                                  THEN ScalerLoaded(sc0, fs[path].scaler) ELSE sc0,
                       start_epoch |-> start]

\* --------------------------------------------------------------- state

VARIABLES
    cfg,            \* the configuration: num_epochs, use_amp, learning_rate
    env,            \* cuda: torch.cuda.is_available(); len_train, len_val: len(dl_*)
    files,          \* model_states/*.pt: name (digits) -> content
    config_yaml,    \* model_states/config.yaml: <<>> when absent, else <<cfg>>
    pc,             \* where the process is
    error,          \* the exception that ended the process, or "none"
    current_epoch,  \* main's current_epoch
    start_epoch,    \* what load_model_optim_scaler returned as start_epoch
    model,          \* the model's parameters
    grads,          \* the parameters' .grad: 0 when zeroed
    optim,          \* the optimizer's state: its param_groups' lr
    scaler,         \* the GradScaler
    idx,            \* batches of the running epoch runner done so far
    batch,          \* loss and oa of the batch in hand
    loss_total, oa_total,
    stats,          \* loss_train, oa_train, loss_val, oa_val of the epoch
    log,            \* history: what main did in this run, in order
    ops,            \* history: what train() did to the gradients, in order
    pre,            \* history: parameters and scale before the batch in hand
    entry,          \* history: the training state when validate() was entered
    written,        \* history: the files this run opened for writing
    start_files,    \* history: the store when this run started
    last_done,      \* history: the state the last completed save_model saved
    restarts,       \* how many times the process was killed or started again
    prev_end        \* how the run before this one ended

vars == <<cfg, env, files, config_yaml, pc, error, current_epoch, start_epoch,
          model, grads, optim, scaler, idx, batch, loss_total, oa_total, stats,
          log, ops, pre, entry, written, start_files, last_done, restarts,
          prev_end>>

hist == <<log, ops, pre, entry, written, start_files, last_done>>
world == <<cfg, env, restarts, prev_end>>
store == <<files, config_yaml>>
runner == <<idx, batch, loss_total, oa_total>>

Terminal == {"done", "crashed", "killed"}

TrainingState == [model |-> model, grads |-> grads, optim |-> optim, scaler |-> scaler]

\* ---------------------------------------------------------------- Init

\* the names of the checkpoint files a store may hold at the start
MainNames == {<<1>>, <<2>>, <<3>>, <<0, 1>>}
AllNames == {<<1>>, <<3>>, <<5>>, <<7>>, <<1, 0>>, <<0, 2>>}

\* the scaler states a checkpoint of an earlier run may hold: of a disabled
\* scaler, of a new one, and of one whose scale is about to underflow
OldScalerStates ==
    {[empty |-> TRUE, scale |-> 0, growth_tracker |-> 0],
     [empty |-> FALSE, scale |-> InitScaleExp, growth_tracker |-> 0],
     [empty |-> FALSE, scale |-> MinScaleExp, growth_tracker |-> 0]}

\* what the newest checkpoint of an earlier run may hold
LatestContents ==
    {PartialFile, MismatchFile}
    \cup {Bundle(1, [lr |-> 1], sd, NoStats) : sd \in OldScalerStates}

\* an older checkpoint of an earlier run
OldBundle(n) ==
    Bundle(n % ParamMod, [lr |-> 1],
           [empty |-> FALSE, scale |-> InitScaleExp, growth_tracker |-> 0], NoStats)

Configs ==
    [num_epochs : 1..MaxEpochs, use_amp : {"unset", "false", "true"},
     learning_rate : {2}]

Envs == [cuda : BOOLEAN, len_train : 0..MaxTrainBatches, len_val : 0..MaxValBatches]

NoSnapshot == [model |-> 0, grads |-> 0, optim |-> [lr |-> 0], scaler |-> NewScaler(FALSE)]

InitWith(names, configs, envs) ==
    /\ cfg \in configs
    /\ env \in envs
    /\ \E S \in SUBSET names : \E latest \in LatestContents :
          /\ S = {} => latest = PartialFile
          /\ S # {} /\ Str(LatestEpoch(S)) \notin S => latest = PartialFile
          /\ files = [n \in S |->
                        IF n = Str(LatestEpoch(S)) THEN latest
                        ELSE OldBundle(ParseInt(n))]
          /\ config_yaml = IF S = {} THEN <<>> ELSE <<[cfg EXCEPT !.learning_rate = 1]>>
    /\ pc = "load"
    /\ error = "none"
    /\ current_epoch = 0
    /\ start_epoch = 0
    /\ model = 0
    /\ grads = 0
    /\ optim = [lr |-> 0]
    /\ scaler = NewScaler(FALSE)
    /\ idx = 0
    /\ batch = [loss |-> 0, oa |-> 0]
    /\ loss_total = 0
    /\ oa_total = 0
    /\ stats = NoStats
    /\ log = <<>>
    /\ ops = <<>>
    /\ pre = [model |-> 0, scale |-> 0]
    /\ entry = NoSnapshot
    /\ written = {}
    /\ start_files = files
    /\ last_done = [valid |-> FALSE, epoch |-> 0, model |-> 0, optim |-> [lr |-> 0],
                    scaler |-> [empty |-> TRUE, scale |-> 0, growth_tracker |-> 0]]
    /\ restarts = 0
    /\ prev_end = "none"

Init == InitWith(MainNames, Configs, Envs)

\* ---------------------------------------------------------------- main

\* main, line 329: model, optim, scaler, current_epoch = load_model_optim_scaler(cfg)
Load ==
    /\ pc = "load"
    /\ LET r == LoadResult(files, cfg, env)
       IN  IF r.error # "none"
           THEN /\ pc' = "crashed"
                /\ error' = r.error
                /\ UNCHANGED <<current_epoch, start_epoch, model, optim, scaler>>
           ELSE /\ pc' = "loop"
                /\ error' = "none"
                /\ current_epoch' = r.start_epoch
                /\ start_epoch' = r.start_epoch
                /\ model' = r.model
                /\ optim' = r.optim
                /\ scaler' = r.scaler
    /\ UNCHANGED <<grads, stats, runner, hist, world, store>>

\* a plausible slip: one epoch too many
LoopTest_inclusive ==
    /\ pc = "loop"
    /\ IF current_epoch <= cfg.num_epochs
       THEN /\ current_epoch' = current_epoch + 1
            /\ log' = Append(log, [op |-> "epoch", epoch |-> current_epoch + 1])
            /\ pc' = "train"
       ELSE /\ pc' = "done"
            /\ UNCHANGED <<current_epoch, log>>
    /\ UNCHANGED <<error, start_epoch, model, grads, optim, scaler, stats, runner,
                   ops, pre, entry, written, start_files, last_done, world, store>>

\* main, lines 333-335: while current_epoch < numEpochs: current_epoch += 1
LoopTest ==
    /\ pc = "loop"
    /\ IF current_epoch < cfg.num_epochs
       THEN /\ current_epoch' = current_epoch + 1
            /\ log' = Append(log, [op |-> "epoch", epoch |-> current_epoch + 1])
            /\ pc' = "train"
       ELSE /\ pc' = "done"
            /\ UNCHANGED <<current_epoch, log>>
    /\ UNCHANGED <<error, start_epoch, model, grads, optim, scaler, stats, runner,
                   ops, pre, entry, written, start_files, last_done, world, store>>

\* --------------------------------------------------------------- train

\* the outcomes of a backward pass: finite gradients, or an inf or NaN in them
GradSet == {1, NONFINITE}

\* train, lines 112-143: the running sums start at 0.0
TrainEnter ==
    /\ pc = "train"
    /\ pc' = "t_iter"
    /\ idx' = 0
    /\ loss_total' = 0
    /\ oa_total' = 0
    /\ log' = Append(log, [op |-> "train", epoch |-> current_epoch])
    /\ ops' = <<>>
    /\ UNCHANGED <<error, current_epoch, start_epoch, model, grads, optim, scaler,
                   batch, stats, pre, entry, written, start_files, last_done,
                   world, store>>

\* train, line 145: the next batch of the data loader, or the end of the loop
TrainNext ==
    /\ pc = "t_iter"
    /\ pc' = IF idx < env.len_train THEN "t_backward" ELSE "t_final"
    /\ UNCHANGED <<error, current_epoch, start_epoch, model, grads, optim, scaler,
                   stats, runner, hist, world, store>>

\* train, lines 155-164: forward pass, loss, scaler.scale(loss).backward();
\* backward() adds the batch's gradients to the ones already there
TrainBackward ==
    /\ pc = "t_backward"
    /\ \E g \in GradSet :
          grads' = Add(grads, g)
    /\ batch' = [loss |-> LossOf(model), oa |-> OaOf(model)]
    /\ pre' = [model |-> model, scale |-> scaler.scale]
    /\ ops' = Append(ops, "backward")
    /\ pc' = "t_step"
    /\ UNCHANGED <<error, current_epoch, start_epoch, model, optim, scaler, idx,
                   loss_total, oa_total, stats, log, entry, written, start_files,
                   last_done, world, store>>

\* train, line 170: scaler.step(optimizer)
TrainStep ==
    /\ pc = "t_step"
    /\ LET r == ScalerStep(scaler, grads, model, optim.lr)
       IN  /\ scaler' = r.scaler
           /\ grads' = r.grads
           /\ model' = r.model
    /\ ops' = Append(ops, "step")
    /\ pc' = "t_update"
    /\ UNCHANGED <<error, current_epoch, start_epoch, optim, stats, runner, log,
                   pre, entry, written, start_files, last_done, world, store>>

\* train, line 173: scaler.update()
TrainUpdate ==
    /\ pc = "t_update"
    /\ scaler' = ScalerUpdate(scaler)
    /\ ops' = Append(ops, "update")
    /\ pc' = "t_zero"
    /\ UNCHANGED <<error, current_epoch, start_epoch, model, grads, optim, stats,
                   runner, log, pre, entry, written, start_files, last_done, world,
                   store>>

\* a plausible slip: the gradients are left as they are
TrainZeroGrad_kept ==
    /\ pc = "t_zero"
    /\ ops' = Append(ops, "zero_grad")
    /\ pc' = "t_stats"
    /\ UNCHANGED <<error, current_epoch, start_epoch, model, grads, optim, scaler,
                   stats, runner, log, pre, entry, written, start_files, last_done,
                   world, store>>

\* train, line 176: optimizer.zero_grad()
TrainZeroGrad ==
    /\ pc = "t_zero"
    /\ grads' = 0
    /\ ops' = Append(ops, "zero_grad")
    /\ pc' = "t_stats"
    /\ UNCHANGED <<error, current_epoch, start_epoch, model, optim, scaler, stats,
                   runner, log, pre, entry, written, start_files, last_done, world,
                   store>>

\* train, lines 184-201: the running sums take the batch's loss and oa
TrainStats ==
    /\ pc = "t_stats"
    /\ loss_total' = Add(loss_total, batch.loss)
    /\ oa_total' = oa_total + batch.oa
    /\ idx' = idx + 1
    /\ pc' = "t_iter"
    /\ UNCHANGED <<error, current_epoch, start_epoch, model, grads, optim, scaler,
                   batch, stats, hist, world, store>>

\* train, lines 204-212, and main, line 337: the sums are divided by
\* len(dataLoader); dividing by zero raises ZeroDivisionError
TrainFinal ==
    /\ pc = "t_final"
    /\ IF env.len_train = 0
       THEN /\ pc' = "crashed"
            /\ error' = "ZeroDivisionError"
            /\ UNCHANGED stats
       ELSE /\ pc' = "validate"
            /\ stats' = [stats EXCEPT !.loss_train = Mean(loss_total, env.len_train),
                                      !.oa_train = Mean(oa_total, env.len_train)]
            /\ UNCHANGED error
    /\ UNCHANGED <<current_epoch, start_epoch, model, grads, optim, scaler, runner,
                   hist, world, store>>

\* ------------------------------------------------------------ validate

\* validate, lines 216-244
ValEnter ==
    /\ pc = "validate"
    /\ pc' = "v_iter"
    /\ idx' = 0
    /\ loss_total' = 0
    /\ oa_total' = 0
    /\ log' = Append(log, [op |-> "validate", epoch |-> current_epoch])
    /\ entry' = TrainingState
    /\ UNCHANGED <<error, current_epoch, start_epoch, model, grads, optim, scaler,
                   batch, stats, ops, pre, written, start_files, last_done, world,
                   store>>

\* validate, line 247: the next batch, or the end of the loop
ValNext ==
    /\ pc = "v_iter"
    /\ pc' = IF idx < env.len_val THEN "v_batch" ELSE "v_final"
    /\ UNCHANGED <<error, current_epoch, start_epoch, model, grads, optim, scaler,
                   stats, runner, hist, world, store>>

\* a plausible slip: validation takes an optimizer step as training does
ValBatch_steps ==
    /\ pc = "v_batch"
    /\ model' = SgdStep(model, 1, optim.lr)
    /\ loss_total' = Add(loss_total, LossOf(model))
    /\ oa_total' = oa_total + OaOf(model)
    /\ batch' = [loss |-> LossOf(model), oa |-> OaOf(model)]
    /\ idx' = idx + 1
    /\ pc' = "v_iter"
    /\ UNCHANGED <<error, current_epoch, start_epoch, grads, optim, scaler,
                   stats, hist, world, store>>

\* validate, lines 257-287: forward pass, loss, running sums
ValBatch ==
    /\ pc = "v_batch"
    /\ batch' = [loss |-> LossOf(model), oa |-> OaOf(model)]
    /\ loss_total' = Add(loss_total, LossOf(model))
    /\ oa_total' = oa_total + OaOf(model)
    /\ idx' = idx + 1
    /\ pc' = "v_iter"
    /\ UNCHANGED <<error, current_epoch, start_epoch, model, grads, optim, scaler,
                   stats, hist, world, store>>

\* validate, lines 290-298, and main, line 338
ValFinal ==
    /\ pc = "v_final"
    /\ IF env.len_val = 0
       THEN /\ pc' = "crashed"
            /\ error' = "ZeroDivisionError"
            /\ UNCHANGED stats
       ELSE /\ pc' = "save"
            /\ stats' = [stats EXCEPT !.loss_val = Mean(loss_total, env.len_val),
                                      !.oa_val = Mean(oa_total, env.len_val)]
            /\ UNCHANGED error
    /\ UNCHANGED <<current_epoch, start_epoch, model, grads, optim, scaler, runner,
                   hist, world, store>>

\* ---------------------------------------------------------- save_model

\* a plausible slip: the file is named after the epoch before
SaveOpen_previous ==
    /\ pc = "save"
    /\ files' = (Str(current_epoch - 1) :> PartialFile) @@ files
    /\ written' = written \cup {Str(current_epoch - 1)}
    /\ log' = Append(log, [op |-> "save", epoch |-> current_epoch])
    /\ pc' = "s_write"
    /\ UNCHANGED <<error, current_epoch, start_epoch, model, grads, optim, scaler,
                   stats, runner, ops, pre, entry, start_files, last_done, world,
                   config_yaml>>

\* save_model, lines 80-90: open(f'model_states/{epoch}.pt', 'wb') makes the
\* file, or empties the one that is there, before torch.save writes to it
SaveOpen ==
    /\ pc = "save"
    /\ files' = (Str(current_epoch) :> PartialFile) @@ files
    /\ written' = written \cup {Str(current_epoch)}
    /\ log' = Append(log, [op |-> "save", epoch |-> current_epoch])
    /\ pc' = "s_write"
    /\ UNCHANGED <<error, current_epoch, start_epoch, model, grads, optim, scaler,
                   stats, runner, ops, pre, entry, start_files, last_done, world,
                   config_yaml>>

\* save_model, line 90: torch.save(stats, file) has written the whole bundle
SaveWrite ==
    /\ pc = "s_write"
    /\ files' = [files EXCEPT ![Str(current_epoch)] =
                    Bundle(model, optim, ScalerStateDict(scaler), stats)]
    /\ last_done' = [valid |-> TRUE, epoch |-> current_epoch, model |-> model,
                     optim |-> optim, scaler |-> ScalerStateDict(scaler)]
    /\ pc' = "s_config"
    /\ UNCHANGED <<error, current_epoch, start_epoch, model, grads, optim, scaler,
                   stats, runner, log, ops, pre, entry, written, start_files, world,
                   config_yaml>>

\* save_model, lines 93-96: the configuration is written unless it is there
SaveConfig ==
    /\ pc = "s_config"
    /\ config_yaml' = IF config_yaml = <<>> THEN <<cfg>> ELSE config_yaml
    /\ pc' = "loop"
    /\ UNCHANGED <<error, current_epoch, start_epoch, model, grads, optim, scaler,
                   stats, runner, hist, world, files>>

\* ------------------------------------------------- the process's ends

\* the process is ended from outside, wherever it is
Kill ==
    /\ pc \notin Terminal
    /\ restarts < MaxRestarts
    /\ pc' = "killed"
    /\ UNCHANGED <<error, current_epoch, start_epoch, model, grads, optim, scaler,
                   stats, runner, hist, world, store>>

\* the script is started again with the same configuration: main, lines 302-329
Restart ==
    /\ pc \in {"killed", "done"}
    /\ restarts < MaxRestarts
    /\ restarts' = restarts + 1
    /\ prev_end' = pc
    /\ pc' = "load"
    /\ error' = "none"
    /\ current_epoch' = 0
    /\ start_epoch' = 0
    /\ model' = 0
    /\ grads' = 0
    /\ optim' = [lr |-> 0]
    /\ scaler' = NewScaler(FALSE)
    /\ idx' = 0
    /\ batch' = [loss |-> 0, oa |-> 0]
    /\ loss_total' = 0
    /\ oa_total' = 0
    /\ stats' = NoStats
    /\ log' = <<>>
    /\ ops' = <<>>
    /\ pre' = [model |-> 0, scale |-> 0]
    /\ entry' = NoSnapshot
    /\ written' = {}
    /\ start_files' = files
    /\ UNCHANGED <<cfg, env, last_done, store>>

\* the steps of the program itself
Step ==
    \/ Load \/ LoopTest
    \/ TrainEnter \/ TrainNext \/ TrainBackward \/ TrainStep \/ TrainUpdate
    \/ TrainZeroGrad \/ TrainStats \/ TrainFinal
    \/ ValEnter \/ ValNext \/ ValBatch \/ ValFinal
    \/ SaveOpen \/ SaveWrite \/ SaveConfig

Next == Step \/ Kill \/ Restart

Spec == Init /\ [][Next]_vars

\* the runs whose ends are looked at: a scaler that is asked for, few batches
LiveConfigs == [num_epochs : 1..MaxEpochs, use_amp : {"true"}, learning_rate : {2}]
LiveEnvs == [cuda : BOOLEAN, len_train : 0..1, len_val : 0..1]

LiveInit == InitWith(MainNames, LiveConfigs, LiveEnvs)

\* the process runs on whenever it can: nothing in the program waits
LiveSpec == LiveInit /\ [][Next]_vars /\ WF_vars(Step)

\* ------------------------------- load_model_optim_scaler on its own

LoadEnvs == [cuda : BOOLEAN, len_train : {1}, len_val : {1}]

InitLoad == InitWith(AllNames, Configs, LoadEnvs)

NextLoad == Load

\* load_model_optim_scaler applied once to every store over AllNames
LoadSpec == InitLoad /\ [][NextLoad]_vars

\* ------------------------------------------------------------- claims

IsPrefix(s, t) == Len(s) <= Len(t) /\ \A i \in 1..Len(s) : s[i] = t[i]

Larger(a, b) == IF a >= b THEN a ELSE b

\* what an epoch loop from epoch s to epoch n does, in order
EpochOps(e) ==
    <<[op |-> "epoch", epoch |-> e], [op |-> "train", epoch |-> e],
      [op |-> "validate", epoch |-> e], [op |-> "save", epoch |-> e]>>

RECURSIVE ExpectedLog(_, _)
ExpectedLog(s, n) == IF s >= n THEN <<>> ELSE EpochOps(s + 1) \o ExpectedLog(s + 1, n)

\* C1: every iteration of the epoch loop increments current_epoch, then runs
\* train, validate and save_model for that epoch, in this order; a run from
\* epoch s that finishes with s < num_epochs leaves a whole checkpoint for
\* every epoch in s+1..num_epochs, and writes to no file that was there when
\* the run started.
C1_EveryEpochSaved ==
    /\ IsPrefix(log, ExpectedLog(start_epoch, cfg.num_epochs))
    /\ written \cap DOMAIN start_files = {}
    /\ \A n \in DOMAIN start_files : n \in DOMAIN files /\ files[n] = start_files[n]
    /\ (pc = "done" /\ start_epoch < cfg.num_epochs) =>
          /\ log = ExpectedLog(start_epoch, cfg.num_epochs)
          /\ written = {Str(e) : e \in (start_epoch + 1)..cfg.num_epochs}
          /\ \A n \in written : n \in DOMAIN files /\ files[n].kind = "ok"

C1_Witness ==
    /\ pc = "done"
    /\ DOMAIN start_files # {}
    /\ start_epoch < cfg.num_epochs
    /\ Len(log) = 4 * (cfg.num_epochs - start_epoch)
    /\ written # {}

\* C2: the start epoch load_model_optim_scaler returns is the largest epoch
\* number among the checkpoints of the store, gaps or not, and 0 for an
\* empty store.
C2_StartIsMaximum ==
    (pc = "loop" /\ log = <<>>) =>
        IF DOMAIN start_files = {} THEN start_epoch = 0
        ELSE /\ \E n \in DOMAIN start_files : ParseInt(n) = start_epoch
             /\ \A n \in DOMAIN start_files : ParseInt(n) <= start_epoch

C2_Witness ==
    /\ pc = "loop"
    /\ DOMAIN start_files = {<<3>>, <<7>>, <<5>>}
    /\ start_epoch = 7

\* C3 as stated: the epoch loop ends with current_epoch = num_epochs from
\* every start, fresh or resumed.
C3_EndsAtNumEpochs == pc = "done" => current_epoch = cfg.num_epochs

\* C3 as amended: every run ends, and one that ends normally ends with
\* current_epoch the larger of its start epoch and num_epochs.
C3_Terminates ==
    /\ (pc = "load") ~> (pc \in Terminal)
    /\ [](pc = "done" => current_epoch = Larger(start_epoch, cfg.num_epochs))

C3_Witness ==
    /\ pc = "done"
    /\ start_epoch = 1
    /\ current_epoch = cfg.num_epochs
    /\ cfg.num_epochs = 2

\* C4: a run resumed from a latest checkpoint at or beyond num_epochs calls
\* neither train nor validate nor save_model, leaves the store as it was and
\* ends without an error.
C4_NothingLeftToDo ==
    (DOMAIN start_files # {} /\ pc \notin {"load", "crashed"}
     /\ start_epoch >= cfg.num_epochs) =>
        /\ log = <<>>
        /\ written = {}
        /\ files = start_files
        /\ error = "none"
        /\ pc \in {"loop", "done", "killed"}

C4_Witness ==
    /\ pc = "done"
    /\ DOMAIN start_files # {}
    /\ start_epoch >= cfg.num_epochs
    /\ restarts = 0

\* C5: a run killed at any point can be started again, and the new run
\* loads model, optimizer and scaler as the last completed epoch e saved
\* them and goes on with epoch e + 1.
C5_ResumesAfterKill ==
    (prev_end = "killed" /\ last_done.valid /\ pc # "load") =>
        /\ error \notin LoadErrors
        /\ (pc = "loop" /\ log = <<>>) =>
              /\ current_epoch = last_done.epoch
              /\ model = last_done.model
              /\ optim = last_done.optim
              /\ ScalerStateDict(scaler) = last_done.scaler

\* the newest checkpoint of the store fs cannot be loaded: its file is not
\* there under the name looked for, cannot be read, does not fit the model, or
\* holds no scaler state for a scaler that is enabled
BadLatest(fs) ==
    /\ DOMAIN fs # {}
    /\ LET top == SetMax({ParseInt(n) : n \in DOMAIN fs})
       IN  \/ Str(top) \notin DOMAIN fs
           \/ fs[Str(top)].kind # "ok"
           \/ (cfg.use_amp = "true" /\ env.cuda /\ fs[Str(top)].scaler.empty)

\* C6: when the store is not empty and its latest checkpoint cannot be
\* loaded, the run aborts in load_model_optim_scaler: it does not start from
\* epoch 0, runs no epoch and writes no checkpoint.
C6_LoadFailureAborts ==
    BadLatest(start_files) =>
        /\ pc \in {"load", "crashed", "killed"}
        /\ pc = "crashed" => error \in LoadErrors
        /\ log = <<>>
        /\ written = {}
        /\ files = start_files

C6_Witness ==
    /\ pc = "crashed"
    /\ BadLatest(start_files)
    /\ \E n \in DOMAIN start_files : start_files[n].kind = "mismatch"

C8_EmptyInputGuarded ==
    /\ error # "ZeroDivisionError"
    /\ (pc = "crashed" /\ error \notin LoadErrors) => error = "EmptyInputError"

\* the sum of n batches that each give x
SumOf(x, n) == IF x = NONFINITE THEN NONFINITE ELSE n * x

\* C9: validate leaves parameters, gradients, optimizer state and scaler
\* state as they were when it was entered, and what it returns depends on
\* those parameters and the batches alone, so that a second call on the same
\* batches returns the same pair.
C9_ValidateChangesNothing ==
    (pc \in {"v_iter", "v_batch", "v_final", "save"}) =>
        /\ TrainingState = entry
        /\ pc = "save" =>
              /\ stats.loss_val = Mean(SumOf(LossOf(entry.model), env.len_val), env.len_val)
              /\ stats.oa_val = Mean(env.len_val * OaOf(entry.model), env.len_val)

C9_Witness ==
    /\ pc = "save"
    /\ env.len_val >= 1
    /\ entry.model \notin {0, NONFINITE}
    /\ entry.scaler.enabled

BatchOps == <<"backward", "step", "update", "zero_grad">>

\* C10: train over k batches makes k step attempts, each batch in the order
\* backward, scaler.step, scaler.update, zero_grad, and every backward pass
\* starts from zeroed gradients.
C10_OneStepPerBatch ==
    /\ \A i \in 1..Len(ops) : ops[i] = BatchOps[((i - 1) % 4) + 1]
    /\ pc = "t_backward" => grads = 0 /\ Len(ops) = 4 * idx
    /\ pc \in {"t_final", "validate"} => Len(ops) = 4 * env.len_train

C10_Witness ==
    /\ pc = "t_final"
    /\ env.len_train >= 2
    /\ Len(ops) = 4 * env.len_train
    /\ model # NONFINITE

=============================================================================
